---- MODULE Spec2Model ----
(***************************************************************************)
(* A model of the training engine of MNIST_recognition:                    *)
(*   - sgd, the mini-batch driver of src/python/sgd.py, run on a model     *)
(*     object that offers predict and update_parameters;                   *)
(*   - Network and its layers of src/python/neural_model.py.               *)
(* SpecSgd is the specification of one sgd call, SpecNet that of a Network *)
(* object driven by its public methods.                                    *)
(***************************************************************************)
EXTENDS Integers, Sequences, FiniteSets, TLC

VARIABLES
    \* ---- sgd (src/python/sgd.py) ----
    pc,               \* position of the sgd call
    err,              \* the exception that ended the call, "None" if none
    model,            \* the model instance handed to sgd
    epochs,           \* argument epochs
    mini_batch_size,  \* argument mini_batch_size
    metric,           \* argument metric
    ewp,              \* keyword epochs_without_progress: <<k>>, or <<>> when not passed
    X,                \* argument x: X[i] is row i - 1 of the design matrix
    Y,                \* argument y: Y[i] is entry i - 1 of the target vector
    data_size,        \* x.shape[0]
    indexes,          \* np.arange(data_size), shuffled in place every epoch
    errors,           \* errors[r][e + 1]: row r, column e of the error array
    writes,           \* writes[e + 1]: how often column e has been assigned
    epoch,            \* loop variable of the epoch loop
    mini_batches,     \* indexes.reshape(-1, mini_batch_size)
    batch,            \* number of mini-batches of this epoch already processed
    beta,             \* beta[m]: parameter state (model.beta) of model instance m
    runs,             \* runs[m]: attribute parallell_runs of instance m
    lastUpdate,       \* the arguments and the outcome of the latest update_parameters call
    result,           \* what sgd returned
    \* ---- Network (src/python/neural_model.py) ----
    learning_rate,    \* self.learning_rate
    network,          \* self.network: the layers, in order
    isArray,          \* self.network is a numpy array (set by compile), no longer a list
    theta,            \* self.theta: references to the (weights, bias) pairs collected by compile
    compiles,         \* number of compile calls made
    backprops,        \* number of back_propagate calls made
    updates,          \* number of update_parameters calls made on the network
    call,             \* the latest method call: its name, outcome and return value
    \* ---- learning-rate schedule (module learning_rate) ----
    schedule,         \* the Learning_rate object: base, decay, warm-up, total steps, state
    lr_step,          \* the step of the latest call of the compiled rate function, -1 if none
    lr_rate,          \* what that call returned, a fraction <<numerator, denominator>>
    \* ---- linear models (module linear_models) ----
    lin,              \* an OLS and a Ridge instance: momentum, lambda, and per instance beta and velocity
    lin_step,         \* the trainer's step counter: mini-batches processed so far
    lin_last,         \* the latest update_parameters call on the two instances
    \* ---- filter_dicts (src/python/helpers.py, src/python/sgd.py) ----
    heap,             \* heap[o]: the dictionary object o, a function from its keys to their values
    dicts,            \* argument dicts: the list, as the sequence of the objects it refers to
    fd                \* the filter_dicts call: its position, the objects as passed, common

sgdVars == <<pc, err, model, epochs, mini_batch_size, metric, ewp, X, Y, data_size,
             indexes, errors, writes, epoch, mini_batches, batch, beta, runs,
             lastUpdate, result>>

netVars == <<learning_rate, network, isArray, theta, compiles, backprops,
             updates, call>>

rateVars == <<schedule, lr_step, lr_rate>>

linVars == <<lin, lin_step, lin_last>>

dictVars == <<heap, dicts, fd>>

vars == <<sgdVars, netVars, rateVars, linVars, dictVars>>

\* What the steps of one component leave alone.
notSgdVars == <<netVars, rateVars, linVars, dictVars>>

notNetVars == <<sgdVars, rateVars, linVars, dictVars>>

notRateVars == <<sgdVars, netVars, linVars, dictVars>>

notLinVars == <<sgdVars, netVars, rateVars, dictVars>>

notDictVars == <<sgdVars, netVars, rateVars, linVars>>

\* ------------------------------------------------------------------ bounds
MaxN == 4        \* rows of x
MaxEpochs == 2   \* largest epoch budget tried
MaxRuns == 2     \* largest parallell_runs tried
MaxLayers == 3   \* layers added to a network
MaxCompiles == 2 \* compile calls on a network
MaxBackprops == 1 \* back_propagate calls on a network
MaxNetUpdates == 1 \* update_parameters calls on a network
MaxSamples == 2  \* samples in a mini-batch handed to Network.update_parameters
MaxEntry == 30000 \* largest magnitude of an array entry
MaxWarmup == 2   \* longest warm-up passed to ramp_up
MaxSteps == 3    \* largest total step count passed to Learning_rate.compile
MaxUpdates == 2  \* update_parameters calls on a linear model
MaxDicts == 2    \* dictionary objects, and entries of the list handed to filter_dicts

None == "None"
NoKeyword == <<>>   \* a keyword argument that was not passed
Models == {"m1", "m2"}
Metrics == {"MSE", "CrossEntropy"}

Range(s) == {s[i] : i \in DOMAIN s}

\* filter_dicts has not been called.
NoFilter == [state |-> "start", passed |-> <<>>, common |-> <<>>]

\* No linear model has been constructed, none updated.
NoModels ==
    [momentum |-> <<0, 1>>, lambda |-> <<0, 1>>,
     ols |-> [beta |-> <<0, 1>>, velocity |-> <<0, 1>>],
     ridge |-> [beta |-> <<0, 1>>, velocity |-> <<0, 1>>]]

NoLinUpdate == [step |-> -1, rate |-> <<0, 1>>, ols |-> <<>>, ridge |-> <<>>]

\* No Learning_rate object has been constructed.
NoSchedule ==
    [base |-> <<0, 1>>, decay |-> <<0, 1>>, warmup |-> 0, total |-> 0,
     state |-> None]

\* ------------------------------------------------------------------ the model object
\* The classes of linear_models are not part of the sources.  A parameter state
\* is named by the number of update_parameters calls that produced it: 0 is the
\* state the instance was constructed with, v + 1 the state the (v+1)-th update
\* left.  Within one run every parameter state has exactly one such name.
Predict(th, rows) == [params |-> th, rows |-> rows]

UpdateParameters(th, rows, y_tilde) == th + 1

\* The step whose rate an update_parameters call uses.  sgd hands the model
\* no step (line 51): the counter is the model's own, 0 at construction and
\* advanced by every update_parameters call, so it is the number of updates
\* that led to the parameter state th.
ModelStep(th) == th

\* metrics.MSE(y_tilde, y) broadcast over the parallel runs: one value per run.
MSE(y_tilde, r) == [fn |-> "MSE", y_tilde |-> y_tilde, run |-> r]

\* ------------------------------------------------------------------ sgd
\* np.arange(data_size)
Arange(n) == [i \in 1..n |-> i - 1]

\* np.empty((parallell_runs, epochs)): fails on a negative dimension, else
\* holds uninitialised entries.
EmptyFails(p, e) == p < 0 \/ e < 0

Uninitialised == [fn |-> "uninitialised"]

EmptyTransposed(p, e) == [r \in 1..e |-> [c \in 1..p |-> Uninitialised]]

Empty(p, e) == [r \in 1..p |-> [c \in 1..e |-> Uninitialised]]

\* np.random.shuffle(indexes): any rearrangement of the same entries.
ShuffleWithReplacement(ix) == [1..Len(ix) -> Range(ix)]

Shuffle(ix) ==
    {p \in [1..Len(ix) -> Range(ix)] :
        \A i, j \in 1..Len(ix) : i # j => p[i] # p[j]}

\* indexes.reshape(-1, mini_batch_size): an error unless the size is a
\* positive divisor of the length, else the contiguous rows of that length.
ReshapeFails(ix, b) == b <= 0 \/ Len(ix) % b # 0

Reshape(ix, b) ==
    [k \in 1..(Len(ix) \div b) |-> [j \in 1..b |-> ix[((k - 1) * b) + j]]]

\* errors[:, epoch] = value
SetColumn(errs, e, th) ==
    [r \in DOMAIN errs |->
        [errs[r] EXCEPT ![e + 1] = MSE(Predict(th, "all"), r)]]

\* The data sgd is called with: n rows, told apart by their values.
DesignMatrix(n) == [i \in 1..n |-> 100 + i]

Targets(n) == [i \in 1..n |-> 200 + i]

\* x[mini_batch]: a new array holding the rows the index array names.
Take(a, ix) == [j \in 1..Len(ix) |-> a[ix[j] + 1]]

NoUpdate ==
    [rows |-> <<>>, x |-> <<>>, y |-> <<>>, y_tilde |-> None, before |-> 0,
     after |-> 0, step |-> -1]

\* The call with a keyword the signature of sgd does not have (line 12).
SgdCallUnknownKeyword ==
    /\ pc = "start"
    /\ \E m \in Models, n \in 1..MaxN, e \in -1..MaxEpochs, b \in 0..MaxN,
          f \in Metrics, k \in 1..MaxEpochs :
        /\ model' = m
        /\ X' = DesignMatrix(n)
        /\ Y' = Targets(n)
        /\ data_size' = n
        /\ epochs' = e
        /\ mini_batch_size' = b
        /\ metric' = f
        /\ ewp' = <<k>>
    /\ pc' = "failed"
    /\ err' = "TypeError"
    /\ UNCHANGED <<indexes, errors, writes, epoch, mini_batches, batch, beta,
                   runs, lastUpdate, result>>
    /\ UNCHANGED notSgdVars

\* Lines 12 and 39-41: the arguments are bound, indexes and errors allocated.
SgdCall ==
    /\ pc = "start"
    /\ \E m \in Models, n \in 1..MaxN, e \in -1..MaxEpochs, b \in 0..MaxN,
          f \in Metrics :
        /\ model' = m
        /\ X' = DesignMatrix(n)
        /\ Y' = Targets(n)
        /\ data_size' = n
        /\ epochs' = e
        /\ mini_batch_size' = b
        /\ metric' = f
        /\ ewp' = NoKeyword
        /\ indexes' = Arange(n)
        /\ IF EmptyFails(runs[m], e)
           THEN /\ pc' = "failed"
                /\ err' = "ValueError"
                /\ UNCHANGED <<errors, writes>>
           ELSE /\ pc' = "epoch"
                /\ err' = None
                /\ errors' = Empty(runs[m], e)
                /\ writes' = [c \in 1..e |-> 0]
    /\ UNCHANGED <<epoch, mini_batches, batch, beta, runs, lastUpdate, result>>
    /\ UNCHANGED notSgdVars

\* An epoch head that rearranges the rows of x and y themselves as well.
SgdEpochShufflingData ==
    /\ pc = "epoch"
    /\ epoch < epochs
    /\ errors' = SetColumn(errors, epoch, beta[model])
    /\ writes' = [writes EXCEPT ![epoch + 1] = @ + 1]
    /\ \E p \in Shuffle(indexes) :
        /\ indexes' = p
        /\ X' = Take(X, p)
        /\ Y' = Take(Y, p)
        /\ IF ReshapeFails(p, mini_batch_size)
           THEN /\ pc' = "failed"
                /\ err' = "ValueError"
                /\ UNCHANGED <<mini_batches, batch>>
           ELSE /\ pc' = "batch"
                /\ mini_batches' = Reshape(p, mini_batch_size)
                /\ batch' = 0
                /\ UNCHANGED err
    /\ UNCHANGED <<model, epochs, mini_batch_size, metric, ewp, data_size,
                   epoch, beta, runs, lastUpdate, result>>
    /\ UNCHANGED notSgdVars

\* Lines 43-48: the head of one epoch: the error is logged, the indexes are
\* shuffled and cut into mini-batches.
SgdEpoch ==
    /\ pc = "epoch"
    /\ epoch < epochs
    /\ errors' = SetColumn(errors, epoch, beta[model])
    /\ writes' = [writes EXCEPT ![epoch + 1] = @ + 1]
    /\ \E p \in Shuffle(indexes) :
        /\ indexes' = p
        /\ IF ReshapeFails(p, mini_batch_size)
           THEN /\ pc' = "failed"
                /\ err' = "ValueError"
                /\ UNCHANGED <<mini_batches, batch>>
           ELSE /\ pc' = "batch"
                /\ mini_batches' = Reshape(p, mini_batch_size)
                /\ batch' = 0
                /\ UNCHANGED err
    /\ UNCHANGED <<model, epochs, mini_batch_size, metric, ewp, data_size,
                   epoch, beta, runs, lastUpdate, result>>
    /\ UNCHANGED <<X, Y>>
    /\ UNCHANGED notSgdVars

\* A mini-batch step that predicts once per epoch, on the first mini-batch,
\* and hands that prediction to every update of the epoch.
SgdBatchStalePrediction ==
    /\ pc = "batch"
    /\ batch < Len(mini_batches)
    /\ LET mini_batch == mini_batches[batch + 1]
           y_tilde == IF batch = 0 THEN Predict(beta[model], mini_batch)
                      ELSE lastUpdate.y_tilde
           after == UpdateParameters(beta[model], mini_batch, y_tilde)
       IN  /\ beta' = [beta EXCEPT ![model] = after]
           /\ lastUpdate' = [rows |-> mini_batch, x |-> Take(X, mini_batch),
                             y |-> Take(Y, mini_batch), y_tilde |-> y_tilde,
                             before |-> beta[model], after |-> after,
                             step |-> ModelStep(beta[model])]
    /\ batch' = batch + 1
    /\ UNCHANGED <<pc, err, model, epochs, mini_batch_size, metric, ewp,
                   data_size, indexes, errors, writes, epoch, mini_batches,
                   runs, result>>
    /\ UNCHANGED <<X, Y>>
    /\ UNCHANGED notSgdVars

\* A mini-batch step of a model whose step counter starts again at 0 with
\* every epoch.
SgdBatchStepOfEpoch ==
    /\ pc = "batch"
    /\ batch < Len(mini_batches)
    /\ LET mini_batch == mini_batches[batch + 1]
           y_tilde == Predict(beta[model], mini_batch)
           after == UpdateParameters(beta[model], mini_batch, y_tilde)
       IN  /\ beta' = [beta EXCEPT ![model] = after]
           /\ lastUpdate' = [rows |-> mini_batch, x |-> Take(X, mini_batch),
                             y |-> Take(Y, mini_batch), y_tilde |-> y_tilde,
                             before |-> beta[model], after |-> after,
                             step |-> batch]
    /\ batch' = batch + 1
    /\ UNCHANGED <<pc, err, model, epochs, mini_batch_size, metric, ewp,
                   data_size, indexes, errors, writes, epoch, mini_batches,
                   runs, result>>
    /\ UNCHANGED <<X, Y>>
    /\ UNCHANGED notSgdVars

\* Lines 49-51: one mini-batch: predict on its rows, then update.
SgdBatch ==
    /\ pc = "batch"
    /\ batch < Len(mini_batches)
    /\ LET mini_batch == mini_batches[batch + 1]
           y_tilde == Predict(beta[model], mini_batch)
           after == UpdateParameters(beta[model], mini_batch, y_tilde)
       IN  /\ beta' = [beta EXCEPT ![model] = after]
           /\ lastUpdate' = [rows |-> mini_batch, x |-> Take(X, mini_batch),
                             y |-> Take(Y, mini_batch), y_tilde |-> y_tilde,
                             before |-> beta[model], after |-> after,
                             step |-> ModelStep(beta[model])]
    /\ batch' = batch + 1
    /\ UNCHANGED <<pc, err, model, epochs, mini_batch_size, metric, ewp,
                   data_size, indexes, errors, writes, epoch, mini_batches,
                   runs, result>>
    /\ UNCHANGED <<X, Y>>
    /\ UNCHANGED notSgdVars

\* The epoch's error logged after its mini-batches instead of before them.
SgdEpochEndLogging ==
    /\ pc = "batch"
    /\ batch = Len(mini_batches)
    /\ epoch' = epoch + 1
    /\ pc' = "epoch"
    /\ errors' = SetColumn(errors, epoch, beta[model])
    /\ UNCHANGED <<err, model, epochs, mini_batch_size, metric, ewp, data_size,
                   indexes, writes, mini_batches, batch, beta, runs,
                   lastUpdate, result>>
    /\ UNCHANGED <<X, Y>>
    /\ UNCHANGED notSgdVars

\* Line 49 exhausted: back to line 43 with the next epoch.
SgdEpochEnd ==
    /\ pc = "batch"
    /\ batch = Len(mini_batches)
    /\ epoch' = epoch + 1
    /\ pc' = "epoch"
    /\ UNCHANGED <<err, model, epochs, mini_batch_size, metric, ewp, data_size,
                   indexes, errors, writes, mini_batches, batch, beta, runs,
                   lastUpdate, result>>
    /\ UNCHANGED <<X, Y>>
    /\ UNCHANGED notSgdVars

\* A return that first puts back the parameters the first epoch started from.
SgdReturnRestoring ==
    /\ pc = "epoch"
    /\ epoch >= epochs
    /\ result' = [model |-> model, errors |-> errors]
    /\ pc' = "done"
    /\ beta' = [beta EXCEPT ![model] =
                    IF epochs > 0 THEN errors[1][1].y_tilde.params ELSE @]
    /\ UNCHANGED <<err, model, epochs, mini_batch_size, metric, ewp, data_size,
                   indexes, errors, writes, epoch, mini_batches, batch,
                   runs, lastUpdate>>
    /\ UNCHANGED <<X, Y>>
    /\ UNCHANGED notSgdVars

\* Line 53: return model, errors
SgdReturn ==
    /\ pc = "epoch"
    /\ epoch >= epochs
    /\ result' = [model |-> model, errors |-> errors]
    /\ pc' = "done"
    /\ UNCHANGED <<err, model, epochs, mini_batch_size, metric, ewp, data_size,
                   indexes, errors, writes, epoch, mini_batches, batch, beta,
                   runs, lastUpdate>>
    /\ UNCHANGED <<X, Y>>
    /\ UNCHANGED notSgdVars

NextSgd ==
    \/ SgdCallUnknownKeyword
    \/ SgdCall
    \/ SgdEpoch
    \/ SgdBatch
    \/ SgdEpochEnd
    \/ SgdReturn


\* ------------------------------------------------------------------ arrays
\* A numpy array is [ndim, v]: v holds its rows; an array of one dimension is
\* kept as one row, a scalar as one row of one entry.  NoAttr stands for an
\* attribute the object does not have.
NoAttr == [ndim |-> -1, v |-> <<>>]

\* The rows and entries of an array are kept as explicit tuples.
Tuple(f) == <<>> \o f

HasAttr(A) == A.ndim >= 0

Scalar(x) == [ndim |-> 0, v |-> <<<<x>>>>]

\* np.zeros(height)
Zeros(h) == [ndim |-> 1, v |-> <<Tuple([j \in 1..h |-> 0])>>]

Max(x, y) == IF x >= y THEN x ELSE y

NRows(A) == Len(A.v)

NCols(A) == Len(A.v[1])

\* Array entries are integers of magnitude at most MaxEntry.  A result beyond
\* that, and every result computed from one, is Overflow; the calls of the
\* model are those that leave no Overflow in the network (InRange).
Overflow == MaxEntry + 1

Out(x) == x > MaxEntry \/ x < -MaxEntry

Sat(x) == IF Out(x) THEN Overflow ELSE x

Minus(x, y) == IF Out(x) \/ Out(y) THEN Overflow ELSE Sat(x - y)

Plus(x, y) == IF Out(x) \/ Out(y) THEN Overflow ELSE Sat(x + y)

Times(x, y) == IF Out(x) \/ Out(y) THEN Overflow ELSE Sat(x * y)

RECURSIVE SumSeq(_)
SumSeq(s) == IF s = <<>> THEN 0 ELSE Plus(Head(s), SumSeq(Tail(s)))

\* A.T: an array of one dimension is its own transpose.
Transpose(A) ==
    IF A.ndim < 2 THEN A
    ELSE [ndim |-> 2,
          v |-> Tuple([c \in 1..NCols(A) |-> Tuple([r \in 1..NRows(A) |-> A.v[r][c]])])]

\* np.dot(A, B) for operands of one or two dimensions: the last axis of A is
\* summed with the first axis of B.
DotFails(A, B) ==
    \/ A.ndim < 1
    \/ B.ndim < 1
    \/ NCols(A) # (IF B.ndim = 2 THEN NRows(B) ELSE NCols(B))

Dot(A, B) ==
    IF B.ndim = 2
    THEN [ndim |-> A.ndim,
          v |-> Tuple([r \in 1..NRows(A) |-> Tuple([c \in 1..NCols(B) |->
                   SumSeq(Tuple([k \in 1..NRows(B) |-> Times(A.v[r][k], B.v[k][c])]))])])]
    ELSE [ndim |-> A.ndim - 1,
          v |-> <<Tuple([r \in 1..NRows(A) |->
                   SumSeq(Tuple([k \in 1..NCols(B) |-> Times(A.v[r][k], B.v[1][k])]))])>>]

\* Elementwise operations with numpy's broadcasting.
BroadcastFails(A, B) ==
    \/ ~(NRows(A) = NRows(B) \/ NRows(A) = 1 \/ NRows(B) = 1)
    \/ ~(NCols(A) = NCols(B) \/ NCols(A) = 1 \/ NCols(B) = 1)

Elem(A, r, c) ==
    LET row == IF NRows(A) = 1 THEN A.v[1] ELSE A.v[r]
    IN  IF Len(row) = 1 THEN row[1] ELSE row[c]

\* The entrywise operators of the arrays: "-", "+", "*".
Entrywise(op, x, y) ==
    IF op = "-" THEN Minus(x, y)
    ELSE IF op = "+" THEN Plus(x, y)
    ELSE Times(x, y)

Broadcast(A, B, op) ==
    [ndim |-> Max(A.ndim, B.ndim),
     v |-> Tuple([r \in 1..Max(NRows(A), NRows(B)) |->
              Tuple([c \in 1..Max(NCols(A), NCols(B)) |->
                 Entrywise(op, Elem(A, r, c), Elem(B, r, c))])])]

\* A += G: G must broadcast to the shape of A.
InPlaceAddFails(A, G) ==
    \/ ~HasAttr(A)
    \/ G.ndim > A.ndim
    \/ ~(NRows(G) = NRows(A) \/ NRows(G) = 1)
    \/ ~(NCols(G) = NCols(A) \/ NCols(G) = 1)

InPlaceAdd(A, G) ==
    [ndim |-> A.ndim,
     v |-> Tuple([r \in 1..NRows(A) |-> Tuple([c \in 1..NCols(A) |->
              Plus(A.v[r][c], Elem(G, r, c))])])]

\* The column sums of d, not divided by the number of rows, times the rate.
SumAxis0Times(d, lr) ==
    [ndim |-> 1,
     v |-> <<Tuple([c \in 1..NCols(d) |->
              Times(SumSeq(Tuple([r \in 1..NRows(d) |-> d.v[r][c]])), lr)])>>]

\* np.mean(d, axis=0) * learning_rate for d of two dimensions.  Every batch has
\* a number of rows that divides the learning rate, so the product is an
\* integer and \div is exact.
MeanAxis0Times(d, lr) ==
    [ndim |-> 1,
     v |-> <<Tuple([c \in 1..NCols(d) |->
              LET t == Times(SumSeq(Tuple([r \in 1..NRows(d) |-> d.v[r][c]])), lr)
              IN  IF Out(t) THEN Overflow ELSE t \div NRows(d)])>>]

ArrayInRange(A) ==
    \A r \in 1..NRows(A) : \A c \in 1..Len(A.v[r]) : ~Out(A.v[r][c])

\* ------------------------------------------------------------------ layers
\* The activation functions a layer is built with.  The default sigmoid has no
\* integer values; the layers of the model are built with the identity
\* (derivative: the constant 1, as in main.py) or with ReLU.
Activation(f, z) ==
    IF f = "identity" THEN z
    ELSE [ndim |-> z.ndim,
          v |-> Tuple([r \in 1..NRows(z) |-> Tuple([c \in 1..NCols(z) |->
                   IF z.v[r][c] > 0 THEN z.v[r][c] ELSE 0])])]

DiffActivation(f, z) ==
    IF f = "identity" THEN Scalar(1)
    ELSE [ndim |-> z.ndim,
          v |-> Tuple([r \in 1..NRows(z) |-> Tuple([c \in 1..NCols(z) |->
                   IF z.v[r][c] > 0 THEN 1 ELSE 0])])]

\* cost_diff(actualOutput, optimal_output)
CostDiff(actualOutput, optimal_output) ==
    Broadcast(Scalar(2), Broadcast(optimal_output, actualOutput, "-"), "*")

\* Input(height)
NewInput(h) ==
    [kind |-> "Input", height |-> h, activation |-> None, a |-> Zeros(h),
     z |-> NoAttr, d |-> NoAttr, weights |-> NoAttr, bias |-> NoAttr,
     born |-> 0]

\* Dense(height, activation, diff_activation)
NewDense(h, f) ==
    [kind |-> "Dense", height |-> h, activation |-> f, a |-> Zeros(h),
     z |-> Zeros(h), d |-> Zeros(h), weights |-> NoAttr, bias |-> NoAttr,
     born |-> 0]

\* Output(height, activation, diff_activation)
NewOutput(h, f) ==
    [kind |-> "Output", height |-> h, activation |-> f, a |-> Zeros(h),
     z |-> Zeros(h), d |-> Zeros(h), weights |-> NoAttr, bias |-> NoAttr,
     born |-> 0]

\* np.random.normal(0, 1, shape): the generator is a stream, so what a call
\* draws depends on its position in the stream (seed); entries are -1, 0, 1.
Normal(seed, rows, cols, ndim) ==
    [ndim |-> ndim,
     v |-> Tuple([r \in 1..rows |-> Tuple([c \in 1..cols |->
              ((seed + (2 * r) + c) % 3) - 1])])]

SetPrevLayerTransposed(self, prevLayerHeight, seed, g) ==
    [self EXCEPT !.weights = Normal(seed, self.height, prevLayerHeight, 2),
                 !.bias = Normal(seed + 1, 1, self.height, 1),
                 !.born = g]

\* Dense.set_prevLayer: fresh weights and bias; born names the compile call
\* that made these two arrays.
SetPrevLayer(self, prevLayerHeight, seed, g) ==
    [self EXCEPT !.weights = Normal(seed, prevLayerHeight, self.height, 2),
                 !.bias = Normal(seed + 1, 1, self.height, 1),
                 !.born = g]

\* Dense.feed_forward
DenseFeedForwardFails(self, prevLayer) ==
    \/ self.kind = "Input"
    \/ ~HasAttr(self.weights)
    \/ DotFails(prevLayer.a, self.weights)

\* A forward step that leaves the bias out of z.
DenseFeedForwardNoBias(self, prevLayer) ==
    LET z == Dot(prevLayer.a, self.weights)
    IN  [self EXCEPT !.z = z, !.a = Activation(self.activation, z)]

DenseFeedForwardClearingD(self, prevLayer) ==
    LET z == Broadcast(Dot(prevLayer.a, self.weights), self.bias, "+")
    IN  [self EXCEPT !.z = z, !.a = Activation(self.activation, z),
                     !.d = Zeros(self.height)]

\* Dense.feed_forward (lines 72-73)
DenseFeedForward(self, prevLayer) ==
    LET z == Broadcast(Dot(prevLayer.a, self.weights), self.bias, "+")
    IN  [self EXCEPT !.z = z, !.a = Activation(self.activation, z)]

\* Dense.back_propagate(nextLayer) and Output.back_propagate(optimal) as
\* Network.back_propagate calls them on layer i (counted from 1): the last
\* layer is handed the target array, every other one the layer after it.
LayerBackPropagateFails(net, i, optimal) ==
    LET self == net[i]
    IN  \/ self.kind = "Input"
        \/ /\ self.kind = "Dense"
           /\ \/ i = Len(net)
              \/ ~HasAttr(net[i + 1].weights)
              \/ ~HasAttr(net[i + 1].d)
              \/ DotFails(net[i + 1].weights, Transpose(net[i + 1].d))
              \/ BroadcastFails(
                    Transpose(Dot(net[i + 1].weights, Transpose(net[i + 1].d))),
                    DiffActivation(self.activation, self.z))
        \/ /\ self.kind = "Output"
           /\ \/ i # Len(net)
              \/ BroadcastFails(optimal, self.a)
              \/ BroadcastFails(CostDiff(self.a, optimal),
                                DiffActivation(self.activation, self.z))

\* An error d that leaves out the derivative of the activation.
LayerBackPropagateLinear(net, i, optimal) ==
    LET self == net[i]
    IN  IF self.kind = "Output"
        THEN CostDiff(self.a, optimal)
        ELSE Transpose(Dot(net[i + 1].weights, Transpose(net[i + 1].d)))

LayerBackPropagate(net, i, optimal) ==
    LET self == net[i]
    IN  IF self.kind = "Output"
        THEN Broadcast(CostDiff(self.a, optimal),
                       DiffActivation(self.activation, self.z), "*")
        ELSE Broadcast(
                Transpose(Dot(net[i + 1].weights, Transpose(net[i + 1].d))),
                DiffActivation(self.activation, self.z), "*")

\* ------------------------------------------------------------------ Network
\* Batches of one or two rows for a layer of height h (inputs and targets).
Batches(h) ==
    {Tuple([r \in 1..Len(f) |-> Tuple([c \in 1..h |-> f[r] + (c - 1)])]) :
        f \in {<<1>>, <<-1, 1>>}}

AsArray(rows) == [ndim |-> 2, v |-> rows]

\* The layers addLayer is called with.
NewLayers == {NewInput(2), NewDense(2, "relu"), NewOutput(1, "identity")}

\* The learning rates a Network is constructed with.
LearningRates == {2}

RECURSIVE CompileFromKeeping(_, _, _, _)
CompileFromKeeping(net, i, seed, g) ==
    IF i > Len(net) THEN [ok |-> TRUE, net |-> net]
    ELSE IF net[i].kind = "Input" THEN [ok |-> FALSE, net |-> net]
    ELSE IF HasAttr(net[i].weights)
    THEN CompileFromKeeping(net, i + 1, seed, g)
    ELSE CompileFromKeeping(
            [net EXCEPT ![i] = SetPrevLayer(@, net[i - 1].height, seed + i, g)],
            i + 1, seed, g)

\* Network.compile, the loop of lines 153-155 from layer i on: stops at a
\* layer without set_prevLayer.
RECURSIVE CompileFrom(_, _, _, _)
CompileFrom(net, i, seed, g) ==
    IF i > Len(net) THEN [ok |-> TRUE, net |-> net]
    ELSE IF net[i].kind = "Input" THEN [ok |-> FALSE, net |-> net]
    ELSE CompileFrom(
            [net EXCEPT ![i] = SetPrevLayer(@, net[i - 1].height, seed + i, g)],
            i + 1, seed, g)

\* Network.feed_forward, the loop of lines 169-170 from layer i on: stops at
\* the first layer whose feed_forward raises.
RECURSIVE FeedFrom(_, _)
FeedFrom(net, i) ==
    IF i > Len(net) THEN [ok |-> TRUE, net |-> net]
    ELSE IF DenseFeedForwardFails(net[i], net[i - 1])
    THEN [ok |-> FALSE, net |-> net]
    ELSE FeedFrom([net EXCEPT ![i] = DenseFeedForward(@, net[i - 1])], i + 1)

\* Network.feed_forward (lines 168-170)
NetworkFeedForward(net, input_neurons) ==
    IF Len(net) = 0 THEN [ok |-> FALSE, net |-> net]
    ELSE FeedFrom([net EXCEPT ![1].a = input_neurons], 2)

\* Network.back_propagate, the loop of lines 186-195 from layer i down.
RECURSIVE BackFrom(_, _, _, _)
BackFrom(net, i, optimal_output, lr) ==
    IF i < 2 THEN [ok |-> TRUE, net |-> net]
    ELSE IF LayerBackPropagateFails(net, i, optimal_output)
    THEN [ok |-> FALSE, net |-> net]
    ELSE
      LET n1 == [net EXCEPT ![i].d = LayerBackPropagate(net, i, optimal_output)]
          db == MeanAxis0Times(n1[i].d, lr)
      IN  IF InPlaceAddFails(n1[i].bias, db) THEN [ok |-> FALSE, net |-> n1]
          ELSE
            LET n2 == [n1 EXCEPT ![i].bias = InPlaceAdd(@, db)]
                a_T == Transpose(n2[i - 1].a)
            IN  IF DotFails(a_T, n2[i].d) THEN [ok |-> FALSE, net |-> n2]
                ELSE
                  LET dw == Broadcast(Dot(a_T, n2[i].d), Scalar(lr), "*")
                  IN  IF InPlaceAddFails(n2[i].weights, dw)
                      THEN [ok |-> FALSE, net |-> n2]
                      ELSE BackFrom(
                             [n2 EXCEPT ![i].weights = InPlaceAdd(@, dw)],
                             i - 1, optimal_output, lr)

\* np.zeros_like(A)
ZerosLike(A) ==
    [ndim |-> A.ndim,
     v |-> Tuple([r \in 1..NRows(A) |-> Tuple([c \in 1..Len(A.v[r]) |-> 0])])]

\* np.mean(d, axis=0) for the d of one sample, an array of one row.
MeanAxis0(d) == MeanAxis0Times(d, 1)

\* list.reverse()
Reverse(s) == [k \in 1..Len(s) |-> s[(Len(s) - k) + 1]]

\* Network.backprop, the loop of lines 212-220 from layer i down: the
\* gradients are appended in the order the layers are visited, last layer
\* first.
RECURSIVE BackpropFrom(_, _, _, _, _)
BackpropFrom(net, i, optimal_output, nabla_b, nabla_w) ==
    IF i < 2
    THEN [ok |-> TRUE, net |-> net, nabla_b |-> nabla_b, nabla_w |-> nabla_w]
    ELSE IF LayerBackPropagateFails(net, i, optimal_output)
    THEN [ok |-> FALSE, net |-> net, nabla_b |-> nabla_b, nabla_w |-> nabla_w]
    ELSE
      LET n1 == [net EXCEPT ![i].d = LayerBackPropagate(net, i, optimal_output)]
          a_T == Transpose(n1[i - 1].a)
      IN  IF DotFails(a_T, n1[i].d)
          THEN [ok |-> FALSE, net |-> n1, nabla_b |-> nabla_b,
                nabla_w |-> nabla_w]
          ELSE BackpropFrom(n1, i - 1, optimal_output,
                            Append(nabla_b, MeanAxis0(n1[i].d)),
                            Append(nabla_w, Dot(a_T, n1[i].d)))

\* Network.backprop (lines 209-222): a forward pass, then the backward loop.
Backprop(net, input, optimal_output) ==
    LET r == NetworkFeedForward(net, input)
    IN  IF ~r.ok
        THEN [ok |-> FALSE, net |-> r.net, nabla_b |-> <<>>, nabla_w |-> <<>>]
        ELSE BackpropFrom(r.net, Len(r.net), optimal_output, <<>>, <<>>)

\* Lines 227-229: zero arrays shaped like each layer's bias and weights, last
\* layer first; a layer without the attributes raises AttributeError.
ZeroGradientsFail(net) ==
    \E i \in 2..Len(net) : ~HasAttr(net[i].bias) \/ ~HasAttr(net[i].weights)

ZeroGradients(net, attr) ==
    [k \in 1..(Len(net) - 1) |->
        ZerosLike(IF attr = "bias" THEN net[(Len(net) - k) + 1].bias
                  ELSE net[(Len(net) - k) + 1].weights)]

\* [nb + dnb for nb, dnb in zip(nabla, delta)]
AddGradientsFail(nabla, delta) ==
    \E k \in 1..Len(nabla) : k <= Len(delta) /\ BroadcastFails(nabla[k], delta[k])

\* A sum that keeps the gradients of the latest sample only.
KeepLatestGradients(nabla, delta) ==
    [k \in 1..(IF Len(nabla) <= Len(delta) THEN Len(nabla) ELSE Len(delta)) |->
        delta[k]]

AddGradients(nabla, delta) ==
    [k \in 1..(IF Len(nabla) <= Len(delta) THEN Len(nabla) ELSE Len(delta)) |->
        Broadcast(nabla[k], delta[k], "+")]

\* Lines 231-234 from sample k of the mini-batch on.
RECURSIVE SamplesFrom(_, _, _, _, _)
SamplesFrom(net, mini_batch_x, k, nabla_b, nabla_w) ==
    IF k > Len(mini_batch_x)
    THEN [ok |-> TRUE, net |-> net, nabla_b |-> nabla_b, nabla_w |-> nabla_w]
    ELSE
      LET r == Backprop(net, mini_batch_x[k][1], mini_batch_x[k][2])
      IN  IF \/ ~r.ok
             \/ AddGradientsFail(nabla_b, r.nabla_b)
             \/ AddGradientsFail(nabla_w, r.nabla_w)
          THEN [ok |-> FALSE, net |-> r.net, nabla_b |-> nabla_b,
                nabla_w |-> nabla_w]
          ELSE SamplesFrom(r.net, mini_batch_x, k + 1,
                           AddGradients(nabla_b, r.nabla_b),
                           AddGradients(nabla_w, r.nabla_w))

\* Lines 238-240 from layer i down: nabla_w[i-1] and nabla_b[i-1] of the
\* reversed lists are added, scaled by the learning rate.
RECURSIVE ApplyFrom(_, _, _, _, _)
ApplyFrom(net, i, nabla_b, nabla_w, lr) ==
    IF i < 2 THEN [ok |-> TRUE, net |-> net]
    ELSE
      LET dw == Broadcast(nabla_w[i - 1], Scalar(lr), "*")
          db == Broadcast(nabla_b[i - 1], Scalar(lr), "*")
      IN  IF InPlaceAddFails(net[i].weights, dw) THEN [ok |-> FALSE, net |-> net]
          ELSE
            LET n1 == [net EXCEPT ![i].weights = InPlaceAdd(@, dw)]
            IN  IF InPlaceAddFails(n1[i].bias, db)
                THEN [ok |-> FALSE, net |-> n1]
                ELSE ApplyFrom([n1 EXCEPT ![i].bias = InPlaceAdd(@, db)],
                               i - 1, nabla_b, nabla_w, lr)

\* Network.update_parameters (lines 225-240)
NetworkUpdateParameters(net, mini_batch_x, lr) ==
    IF ZeroGradientsFail(net) THEN [ok |-> FALSE, net |-> net]
    ELSE
      LET s == SamplesFrom(net, mini_batch_x, 1, ZeroGradients(net, "bias"),
                           ZeroGradients(net, "weights"))
      IN  IF ~s.ok THEN [ok |-> FALSE, net |-> s.net]
          ELSE ApplyFrom(s.net, Len(net), Reverse(s.nabla_b),
                         Reverse(s.nabla_w), lr)

InRange(net) ==
    \A i \in DOMAIN net :
        /\ ArrayInRange(net[i].a)
        /\ ArrayInRange(net[i].z)
        /\ ArrayInRange(net[i].d)
        /\ ArrayInRange(net[i].weights)
        /\ ArrayInRange(net[i].bias)

NoCall ==
    [op |-> None, ok |-> TRUE, ret |-> NoAttr, arg |-> NoAttr,
     compilesBefore |-> 0]

\* What call keeps of a method call: arg is the array it was called with.
Called(op, ok, ret, arg) ==
    [op |-> op, ok |-> ok, ret |-> ret, arg |-> arg,
     compilesBefore |-> compiles]

\* Network.__init__; no sgd call is in progress.
InitNet ==
    /\ learning_rate \in LearningRates
    /\ network = <<>>
    /\ isArray = FALSE
    /\ theta = <<>>
    /\ compiles = 0
    /\ backprops = 0
    /\ updates = 0
    /\ call = NoCall
    /\ pc = "start"
    /\ err = None
    /\ model = None
    /\ epochs = 0
    /\ mini_batch_size = 0
    /\ metric = None
    /\ ewp = NoKeyword
    /\ X = <<>>
    /\ Y = <<>>
    /\ data_size = 0
    /\ indexes = <<>>
    /\ errors = <<>>
    /\ writes = <<>>
    /\ epoch = 0
    /\ mini_batches = <<>>
    /\ batch = 0
    /\ beta = [m \in Models |-> 0]
    /\ runs = [m \in Models |-> 1]
    /\ lastUpdate = NoUpdate
    /\ result = None
    /\ schedule = NoSchedule
    /\ lr_step = -1
    /\ lr_rate = <<0, 1>>
    /\ lin = NoModels
    /\ lin_step = 0
    /\ lin_last = NoLinUpdate
    /\ heap = <<>>
    /\ dicts = <<>>
    /\ fd = NoFilter

\* An addLayer that appends to a compiled network as well.
AddLayerAfterCompile ==
    /\ Len(network) < MaxLayers
    /\ \E layer \in NewLayers :
        /\ network' = Append(network, layer)
        /\ call' = Called("addLayer", TRUE, NoAttr, NoAttr)
    /\ UNCHANGED <<learning_rate, isArray, theta, compiles, backprops, updates>>
    /\ UNCHANGED notNetVars

\* Network.addLayer: a list appends, a numpy array has no append.
AddLayer ==
    /\ Len(network) < MaxLayers
    /\ \E layer \in NewLayers :
        IF isArray
        THEN /\ call' = Called("addLayer", FALSE, NoAttr, NoAttr)
             /\ UNCHANGED network
        ELSE /\ network' = Append(network, layer)
             /\ call' = Called("addLayer", TRUE, NoAttr, NoAttr)
    /\ UNCHANGED <<learning_rate, isArray, theta, compiles, backprops, updates>>
    /\ UNCHANGED notNetVars

\* np.array(theta, dtype=object) (line 156) on the list of (weights, bias)
\* pairs: when every weights and bias array has the same first dimension
\* k > 1 (all layers of one height k), numpy shapes the result (pairs, 2, k)
\* and raises ValueError copying a k x k weights array into a row of length k.
ThetaArrayFails(net) ==
    /\ Len(net) >= 2
    /\ net[1].height > 1
    /\ \A i \in DOMAIN net : net[i].height = net[1].height

\* Network.compile
Compile ==
    /\ compiles < MaxCompiles
    /\ compiles' = compiles + 1
    /\ LET r == CompileFrom(network, 2, compiles + 1, compiles + 1)
            done == r.ok /\ ~ThetaArrayFails(network)
        IN  /\ network' = r.net
            /\ call' = Called("compile", done, NoAttr, NoAttr)
            /\ IF done
               THEN /\ theta' = theta \o
                        [k \in 1..(Len(network) - 1) |->
                            [layer |-> k + 1, born |-> compiles + 1]]
                    /\ isArray' = TRUE
               ELSE UNCHANGED <<theta, isArray>>
    /\ UNCHANGED <<learning_rate, backprops, updates>>
    /\ UNCHANGED notNetVars

InputHeight == IF Len(network) = 0 THEN 1 ELSE network[1].height

OutputHeight == IF Len(network) = 0 THEN 1 ELSE network[Len(network)].height

\* Network.feed_forward
FeedForward ==
    /\ \E x \in Batches(InputHeight) :
        \E r \in {NetworkFeedForward(network, AsArray(x))} :
            /\ InRange(r.net)
            /\ network' = r.net
            /\ call' = Called("feed_forward", r.ok, NoAttr, AsArray(x))
    /\ UNCHANGED <<learning_rate, isArray, theta, compiles, backprops, updates>>
    /\ UNCHANGED notNetVars

\* Network.predict
NetPredict ==
    /\ \E x \in Batches(InputHeight) :
        \E r \in {NetworkFeedForward(network, AsArray(x))} :
            /\ InRange(r.net)
            /\ network' = r.net
            /\ call' = Called("predict", r.ok,
                              IF r.ok THEN r.net[Len(r.net)].a ELSE NoAttr,
                              AsArray(x))
    /\ UNCHANGED <<learning_rate, isArray, theta, compiles, backprops, updates>>
    /\ UNCHANGED notNetVars

\* Network.back_propagate
BackPropagate ==
    /\ backprops < MaxBackprops
    /\ backprops' = backprops + 1
    /\ \E y \in Batches(OutputHeight) :
        \E r \in {BackFrom(network, Len(network), AsArray(y), learning_rate)} :
            /\ InRange(r.net)
            /\ network' = r.net
            /\ call' = Called("back_propagate", r.ok, NoAttr, AsArray(y))
    /\ UNCHANGED <<learning_rate, isArray, theta, compiles, updates>>
    /\ UNCHANGED notNetVars

\* The samples of a mini-batch: pairs (input, target) of arrays of one row.
SampleRow(f, h) == Tuple([c \in 1..h |-> f + (c - 1)])

NetSamples(hin, hout) ==
    {<<AsArray(<<SampleRow(f, hin)>>), AsArray(<<SampleRow(f, hout)>>)>> :
        f \in {-1, 1}}

MiniBatchesOf(hin, hout) ==
    UNION {[1..n -> NetSamples(hin, hout)] : n \in 0..MaxSamples}

\* Network.update_parameters
NetUpdateParameters ==
    /\ updates < MaxNetUpdates
    /\ updates' = updates + 1
    /\ \E mini_batch_x \in MiniBatchesOf(InputHeight, OutputHeight) :
        \E r \in {NetworkUpdateParameters(network, mini_batch_x, learning_rate)} :
            /\ InRange(r.net)
            /\ network' = r.net
            /\ call' = Called("update_parameters", r.ok, NoAttr, mini_batch_x)
    /\ UNCHANGED <<learning_rate, isArray, theta, compiles, backprops>>
    /\ UNCHANGED notNetVars

NextNet ==
    \/ AddLayer
    \/ Compile
    \/ FeedForward
    \/ NetPredict
    \/ BackPropagate

SpecNet == InitNet /\ [][NextNet]_vars

\* A Network that is built, compiled and trained by update_parameters.
NextUpd ==
    \/ AddLayer
    \/ Compile
    \/ NetUpdateParameters

SpecUpd == InitNet /\ [][NextUpd]_vars

\* ------------------------------------------------------------------ specifications
\* One sgd call; no Network is in use.  Instance m1 has one parallel run,
\* instance m2 has MaxRuns.
InitSgd ==
    /\ pc = "start"
    /\ err = None
    /\ model = None
    /\ epochs = 0
    /\ mini_batch_size = 0
    /\ metric = None
    /\ ewp = NoKeyword
    /\ X = <<>>
    /\ Y = <<>>
    /\ data_size = 0
    /\ indexes = <<>>
    /\ errors = <<>>
    /\ writes = <<>>
    /\ epoch = 0
    /\ mini_batches = <<>>
    /\ batch = 0
    /\ beta = [m \in Models |-> 0]
    /\ runs = [m \in Models |-> IF m = "m1" THEN 1 ELSE MaxRuns]
    /\ lastUpdate = NoUpdate
    /\ result = None
    /\ schedule = NoSchedule
    /\ lr_step = -1
    /\ lr_rate = <<0, 1>>
    /\ lin = NoModels
    /\ lin_step = 0
    /\ lin_last = NoLinUpdate
    /\ heap = <<>>
    /\ dicts = <<>>
    /\ fd = NoFilter
    /\ learning_rate = 2
    /\ network = <<>>
    /\ isArray = FALSE
    /\ theta = <<>>
    /\ compiles = 0
    /\ backprops = 0
    /\ updates = 0
    /\ call = NoCall

SpecSgd == InitSgd /\ [][NextSgd]_vars


\* ------------------------------------------------------------------ learning-rate schedule
\* The module learning_rate is not part of the sources; main.py uses it as
\* Learning_rate(base, decay).ramp_up(n).compile(total_steps).  The schedule
\* is the one the specification describes.  Rates are exact fractions
\* <<numerator, denominator>> in lowest terms with a positive denominator.
RECURSIVE GCD(_, _)
GCD(a, b) == IF b = 0 THEN a ELSE GCD(b, a % b)

Frac(n, d) ==
    LET g == GCD(IF n < 0 THEN -n ELSE n, d)
    IN  <<n \div g, d \div g>>

FracLess(p, q) == p[1] * q[2] < q[1] * p[2]

\* The values of base (> 0) and of decay (>= 0) tried.
Bases == {Frac(1, 2), Frac(3, 1)}

Decays == {Frac(0, 1), Frac(1, 2), Frac(2, 1)}

\* base * (1 + decay * k): the factor multiplied instead of divided by.
DecayedGrowing(base, decay, k) ==
    Frac(base[1] * (decay[2] + (decay[1] * k)), base[2] * decay[2])

\* base / (1 + decay * k)
Decayed(base, decay, k) ==
    Frac(base[1] * decay[2], base[2] * (decay[2] + (decay[1] * k)))

\* The decay counted from step 0 instead of from the end of the warm-up.
RateFromStepZero(s, step) ==
    IF step < s.warmup
    THEN Frac(s.base[1] * step, s.base[2] * s.warmup)
    ELSE Decayed(s.base, s.decay, step)

\* The ramp one step late: base * (step - 1) / warm-up.
RateRampLate(s, step) ==
    IF step < s.warmup
    THEN Frac(s.base[1] * (step - 1), s.base[2] * s.warmup)
    ELSE Decayed(s.base, s.decay, step - s.warmup)

\* The function compile returns: base * step / warm-up while step < warm-up,
\* base / (1 + decay * (step - warm-up)) from then on.
Rate(s, step) ==
    IF step < s.warmup
    THEN Frac(s.base[1] * step, s.base[2] * s.warmup)
    ELSE Decayed(s.base, s.decay, step - s.warmup)

\* Learning_rate(base, decay); nothing else is in use.
InitRate ==
    /\ \E b \in Bases, d \in Decays :
          schedule = [base |-> b, decay |-> d, warmup |-> 0, total |-> 0,
                      state |-> "constructed"]
    /\ lr_step = -1
    /\ lr_rate = <<0, 1>>
    /\ lin = NoModels
    /\ lin_step = 0
    /\ lin_last = NoLinUpdate
    /\ heap = <<>>
    /\ dicts = <<>>
    /\ fd = NoFilter
    /\ pc = "start"
    /\ err = None
    /\ model = None
    /\ epochs = 0
    /\ mini_batch_size = 0
    /\ metric = None
    /\ ewp = NoKeyword
    /\ X = <<>>
    /\ Y = <<>>
    /\ data_size = 0
    /\ indexes = <<>>
    /\ errors = <<>>
    /\ writes = <<>>
    /\ epoch = 0
    /\ mini_batches = <<>>
    /\ batch = 0
    /\ beta = [m \in Models |-> 0]
    /\ runs = [m \in Models |-> 1]
    /\ lastUpdate = NoUpdate
    /\ result = None
    /\ learning_rate = 2
    /\ network = <<>>
    /\ isArray = FALSE
    /\ theta = <<>>
    /\ compiles = 0
    /\ backprops = 0
    /\ updates = 0
    /\ call = NoCall

\* ramp_up(n): sets the warm-up length; only before compile.
RampUp ==
    /\ schedule.state = "constructed"
    /\ \E n \in 0..MaxWarmup : schedule' = [schedule EXCEPT !.warmup = n]
    /\ UNCHANGED <<lr_step, lr_rate>>
    /\ UNCHANGED notRateVars

\* compile(total_steps): a configuration error when the warm-up is longer
\* than the total step count.
LrCompile ==
    /\ schedule.state = "constructed"
    /\ \E t \in 0..MaxSteps :
          schedule' = [schedule EXCEPT
                          !.total = t,
                          !.state = IF t >= schedule.warmup THEN "compiled"
                                    ELSE "failed"]
    /\ UNCHANGED <<lr_step, lr_rate>>
    /\ UNCHANGED notRateVars

\* A call of the compiled function at a step within the total step count.
RateCall ==
    /\ schedule.state = "compiled"
    /\ \E step \in 0..schedule.total :
          /\ lr_step' = step
          /\ lr_rate' = Rate(schedule, step)
    /\ UNCHANGED schedule
    /\ UNCHANGED notRateVars

NextRate ==
    \/ RampUp
    \/ LrCompile
    \/ RateCall

SpecRate == InitRate /\ [][NextRate]_vars

\* ------------------------------------------------------------------ linear models
\* The module linear_models is not part of the sources; main.py constructs
\* LinearRegression (OLS) and RegularisedLinearRegression (Ridge) with the
\* keywords momentum, _lambda and learning_rate.  The two classes are the
\* ones the specification describes, here with one feature and one parallel
\* run, so that beta, the velocity and the gradient are single fractions.
FracAdd(p, q) == Frac((p[1] * q[2]) + (q[1] * p[2]), p[2] * q[2])

FracSub(p, q) == Frac((p[1] * q[2]) - (q[1] * p[2]), p[2] * q[2])

FracMul(p, q) == Frac(p[1] * q[1], p[2] * q[2])

RECURSIVE FracSum(_)
FracSum(fs) ==
    IF fs = <<>> THEN Frac(0, 1) ELSE FracAdd(Head(fs), FracSum(Tail(fs)))

\* The values of momentum, of lambda and of the initial beta tried.
Momenta == {Frac(0, 1), Frac(1, 2)}

Lambdas == {Frac(0, 1), Frac(1, 1)}

InitialBetas == {Frac(-1, 1), Frac(0, 1), Frac(1, 1)}

\* The samples <<x, y>> and the mini-batches of one or two of them.
Samples == {<<1, 2>>, <<2, 1>>}

LinBatches ==
    {<<r>> : r \in Samples} \cup {<<r, q>> : r \in Samples, q \in Samples}

\* The rate function the models are constructed with.
LinSchedule ==
    [base |-> Frac(1, 2), decay |-> Frac(1, 1), warmup |-> 0,
     total |-> MaxUpdates + 1, state |-> "compiled"]

\* predict(x): x . beta, one entry per row.
LinPredict(b, rows) ==
    [i \in DOMAIN rows |-> FracMul(Frac(rows[i][1], 1), b)]

\* The data term without the division by the batch size.
OLSGradientUnscaled(rows, y_tilde) ==
    FracSum([i \in DOMAIN rows |->
        FracMul(Frac(2 * rows[i][1], 1),
                FracSub(y_tilde[i], Frac(rows[i][2], 1)))])

\* OLS gradient: transpose(X) . (2 / batch_size) . (y_tilde - y)
OLSGradient(rows, y_tilde) ==
    FracSum([i \in DOMAIN rows |->
        FracMul(Frac(2 * rows[i][1], Len(rows)),
                FracSub(y_tilde[i], Frac(rows[i][2], 1)))])

\* A Ridge gradient whose data term is not divided by the batch size.
RidgeGradientUnscaled(rows, y_tilde, b, lam) ==
    FracAdd(OLSGradientUnscaled(rows, y_tilde),
            FracMul(Frac(2, 1), FracMul(lam, b)))

\* Ridge gradient: the OLS gradient plus 2 . lambda . beta
RidgeGradient(rows, y_tilde, b, lam) ==
    FracAdd(OLSGradient(rows, y_tilde), FracMul(Frac(2, 1), FracMul(lam, b)))

\* The velocity summed up whatever the momentum.
AccumulatedVelocity(inst, momentum, rate, gradient) ==
    FracAdd(inst.velocity, FracMul(rate, gradient))

\* A velocity that starts from zero with every mini-batch.
FreshVelocity(inst, momentum, rate, gradient) == FracMul(rate, gradient)

\* velocity <- momentum . velocity + rate(step) . gradient
NewVelocity(inst, momentum, rate, gradient) ==
    FracAdd(FracMul(momentum, inst.velocity), FracMul(rate, gradient))

\* update_parameters: beta <- beta - velocity, with the new velocity.
LinUpdateParameters(inst, momentum, rate, gradient) ==
    LET v == NewVelocity(inst, momentum, rate, gradient)
    IN  [beta |-> FracSub(inst.beta, v), velocity |-> v]

\* What lin_last keeps of one instance's update.
Updated(inst, gradient, after) ==
    [before |-> inst.beta, gradient |-> gradient, after |-> after.beta]

\* An OLS and a Ridge instance constructed with the same momentum, rate
\* function and initial parameters; nothing else is in use.
InitLin ==
    /\ \E m \in Momenta, l \in Lambdas, b \in InitialBetas :
          lin = [momentum |-> m, lambda |-> l,
                 ols |-> [beta |-> b, velocity |-> Frac(0, 1)],
                 ridge |-> [beta |-> b, velocity |-> Frac(0, 1)]]
    /\ lin_step = 0
    /\ lin_last = NoLinUpdate
    /\ heap = <<>>
    /\ dicts = <<>>
    /\ fd = NoFilter
    /\ schedule = NoSchedule
    /\ lr_step = -1
    /\ lr_rate = <<0, 1>>
    /\ pc = "start"
    /\ err = None
    /\ model = None
    /\ epochs = 0
    /\ mini_batch_size = 0
    /\ metric = None
    /\ ewp = NoKeyword
    /\ X = <<>>
    /\ Y = <<>>
    /\ data_size = 0
    /\ indexes = <<>>
    /\ errors = <<>>
    /\ writes = <<>>
    /\ epoch = 0
    /\ mini_batches = <<>>
    /\ batch = 0
    /\ beta = [m \in Models |-> 0]
    /\ runs = [m \in Models |-> 1]
    /\ lastUpdate = NoUpdate
    /\ result = None
    /\ learning_rate = 2
    /\ network = <<>>
    /\ isArray = FALSE
    /\ theta = <<>>
    /\ compiles = 0
    /\ backprops = 0
    /\ updates = 0
    /\ call = NoCall

\* The start of an epoch: the velocity of each model is reset to zero.
LinEpochStart ==
    /\ lin_step < MaxUpdates
    /\ lin' = [lin EXCEPT !.ols.velocity = Frac(0, 1),
                          !.ridge.velocity = Frac(0, 1)]
    /\ UNCHANGED <<lin_step, lin_last>>
    /\ UNCHANGED notLinVars

\* One mini-batch, the same for the two models: predict on its rows, then
\* update_parameters with the rate of the trainer's step counter.
LinBatch ==
    /\ lin_step < MaxUpdates
    /\ \E rows \in LinBatches :
        LET rate == Rate(LinSchedule, lin_step)
            g_ols == OLSGradient(rows, LinPredict(lin.ols.beta, rows))
            g_ridge == RidgeGradient(rows, LinPredict(lin.ridge.beta, rows),
                                     lin.ridge.beta, lin.lambda)
            ols == LinUpdateParameters(lin.ols, lin.momentum, rate, g_ols)
            ridge == LinUpdateParameters(lin.ridge, lin.momentum, rate, g_ridge)
        IN  /\ lin' = [lin EXCEPT !.ols = ols, !.ridge = ridge]
            /\ lin_last' = [step |-> lin_step, rate |-> rate,
                            ols |-> Updated(lin.ols, g_ols, ols),
                            ridge |-> Updated(lin.ridge, g_ridge, ridge)]
    /\ lin_step' = lin_step + 1
    /\ UNCHANGED notLinVars

NextLin ==
    \/ LinEpochStart
    \/ LinBatch

SpecLin == InitLin /\ [][NextLin]_vars

\* ------------------------------------------------------------------ filter_dicts
\* helpers.filter_dicts and sgd.filter_dicts are the same code.  A dictionary
\* is a function from its keys to their values; the list holds references, so
\* two entries of the list may be one and the same dictionary object.
Keys == {"a", "b"}

Values == {1, 2}

Dictionaries == UNION {[K -> Values] : K \in SUBSET Keys}

EmptyDict == [k \in {} |-> 0]

\* The orders in which the loop over unique_keys.items() can meet the keys
\* (the insertion order of the dictionaries passed).
KeyOrders ==
    {o \in [1..Cardinality(Keys) -> Keys] :
        \A i, j \in DOMAIN o : i # j => o[i] # o[j]}

\* len(value_list) == len(dicts): every entry of the list has the key.
InEvery(objs, args, k) ==
    /\ Len(args) > 0
    /\ \A i \in DOMAIN args : k \in DOMAIN objs[args[i]]

\* equals == len(value_list) - 1: neighbouring values are equal.
AllEqual(objs, args, k) ==
    \A e \in 1..(Len(args) - 1) : objs[args[e]][k] = objs[args[e + 1]][k]

\* del dict_to_filter[unique_key]
DelKey(d, k) == [j \in (DOMAIN d) \ {k} |-> d[j]]

SetKey(d, k, v) == [j \in (DOMAIN d) \cup {k} |-> IF j = k THEN v ELSE d[j]]

\* Lines 44-45, from entry i of the list on: del raises KeyError on a
\* dictionary that does not have the key (any more).
RECURSIVE DeleteFrom(_, _, _, _)
DeleteFrom(objs, args, k, i) ==
    IF i > Len(args) THEN [ok |-> TRUE, heap |-> objs]
    ELSE IF k \notin DOMAIN objs[args[i]] THEN [ok |-> FALSE, heap |-> objs]
    ELSE DeleteFrom([objs EXCEPT ![args[i]] = DelKey(@, k)], args, k, i + 1)

\* Lines 36-45, from the j-th key met on.  unique_keys was built from the
\* dictionaries as passed (lines 29-34), before any deletion.
RECURSIVE FilterFrom(_, _, _, _, _, _)
FilterFrom(passed, objs, args, order, j, common) ==
    IF j > Len(order) THEN [ok |-> TRUE, heap |-> objs, common |-> common]
    ELSE
      LET k == order[j]
      IN  IF InEvery(passed, args, k) /\ AllEqual(passed, args, k)
          THEN LET r == DeleteFrom(objs, args, k, 1)
                   c == SetKey(common, k, passed[args[1]][k])
               IN  IF r.ok
                   THEN FilterFrom(passed, r.heap, args, order, j + 1, c)
                   ELSE [ok |-> FALSE, heap |-> r.heap, common |-> c]
          ELSE FilterFrom(passed, objs, args, order, j + 1, common)

\* Some dictionary objects and a list of references to them; nothing else is
\* in use.
InitDicts ==
    /\ heap \in [1..MaxDicts -> Dictionaries]
    /\ dicts \in UNION {[1..n -> 1..MaxDicts] : n \in 0..MaxDicts}
    /\ fd = NoFilter
    /\ lin = NoModels
    /\ lin_step = 0
    /\ lin_last = NoLinUpdate
    /\ schedule = NoSchedule
    /\ lr_step = -1
    /\ lr_rate = <<0, 1>>
    /\ pc = "start"
    /\ err = None
    /\ model = None
    /\ epochs = 0
    /\ mini_batch_size = 0
    /\ metric = None
    /\ ewp = NoKeyword
    /\ X = <<>>
    /\ Y = <<>>
    /\ data_size = 0
    /\ indexes = <<>>
    /\ errors = <<>>
    /\ writes = <<>>
    /\ epoch = 0
    /\ mini_batches = <<>>
    /\ batch = 0
    /\ beta = [m \in Models |-> 0]
    /\ runs = [m \in Models |-> 1]
    /\ lastUpdate = NoUpdate
    /\ result = None
    /\ learning_rate = 2
    /\ network = <<>>
    /\ isArray = FALSE
    /\ theta = <<>>
    /\ compiles = 0
    /\ backprops = 0
    /\ updates = 0
    /\ call = NoCall

\* filter_dicts(dicts): returns (dicts, common), the list being the one
\* passed, or raises KeyError.
FilterDictsCall ==
    /\ fd.state = "start"
    /\ \E order \in KeyOrders :
        LET r == FilterFrom(heap, heap, dicts, order, 1, EmptyDict)
        IN  /\ heap' = r.heap
            /\ fd' = [state |-> IF r.ok THEN "returned" ELSE "KeyError",
                      passed |-> heap,
                      common |-> IF r.ok THEN r.common ELSE EmptyDict]
    /\ UNCHANGED dicts
    /\ UNCHANGED notDictVars

NextDicts == FilterDictsCall

SpecDicts == InitDicts /\ [][NextDicts]_vars

\* ------------------------------------------------------------------ claims on sgd
SgdCalled == pc # "start"

Divides(b, n) == b > 0 /\ n % b = 0

\* How often index i occurs in the mini-batches.
Occurrences(i) ==
    Cardinality({kj \in (DOMAIN mini_batches) \X (1..mini_batch_size) :
                    mini_batches[kj[1]][kj[2]] = i})

\* C1: whenever sgd works on the mini-batches of an epoch, every mini-batch
\* holds mini_batch_size indices, every index 0..n-1 occurs in exactly one
\* mini-batch and the mini-batches together hold all of 0..n-1; and a call
\* whose mini_batch_size divides n never fails at the reshape.
C1_MiniBatchesPartition ==
    /\ pc = "batch" =>
        /\ Divides(mini_batch_size, data_size)
        /\ Len(mini_batches) * mini_batch_size = data_size
        /\ \A k \in DOMAIN mini_batches : Len(mini_batches[k]) = mini_batch_size
        /\ \A i \in 0..(data_size - 1) : Occurrences(i) = 1
        /\ UNION {Range(mini_batches[k]) : k \in DOMAIN mini_batches}
             = 0..(data_size - 1)
    /\ (pc = "failed" /\ ewp = NoKeyword /\ epochs >= 0) =>
        ~Divides(mini_batch_size, data_size)

C1_Witness ==
    /\ pc = "batch"
    /\ epoch = 1
    /\ mini_batch_size = 2
    /\ Len(mini_batches) = 2
    /\ indexes # Arange(data_size)

\* C2 (as claimed): a call with a mini_batch_size that does not divide n never
\* returns a result and leaves the model's parameters as they were.
C2_NonDividingSizeFails ==
    (SgdCalled /\ ~Divides(mini_batch_size, data_size)) =>
        /\ pc # "done"
        /\ beta[model] = 0

\* C3 (as claimed): a call with epochs <= 0 never returns a result and leaves
\* the model unmodified.
C3_NonPositiveEpochsFail ==
    (SgdCalled /\ epochs <= 0) =>
        /\ pc # "done"
        /\ beta[model] = 0

\* Number of update_parameters calls of the epochs before epoch e.
UpdatesBefore(e) ==
    IF e = 0 THEN 0 ELSE e * (data_size \div mini_batch_size)

\* C4: every written column e of errors was computed by predict on the whole
\* of x from the parameters left by all updates of epochs 0..e-1 and by no
\* update of epoch e (for e = 0: the initial parameters).
C4_ErrorLoggedBeforeUpdates ==
    \A r \in DOMAIN errors : \A c \in DOMAIN errors[r] :
        writes[c] > 0 =>
            /\ errors[r][c].y_tilde.rows = "all"
            /\ errors[r][c].y_tilde.params = UpdatesBefore(c - 1)

C4_Witness ==
    /\ pc = "done"
    /\ epochs = 2
    /\ errors[1][1].y_tilde.params = 0
    /\ errors[1][2].y_tilde.params = 2

\* C5 (as claimed): every written entry of errors was computed by the function
\* passed in the metric argument.
C5_MetricArgumentUsed ==
    \A r \in DOMAIN errors : \A c \in DOMAIN errors[r] :
        writes[c] > 0 => errors[r][c].fn = metric

\* C6: column e of errors is assigned exactly once, during epoch e, and never
\* otherwise; the returned series has parallell_runs rows and one column per
\* epoch run, none of them uninitialised.
C6_ErrorSeriesShape ==
    /\ \A c \in DOMAIN writes :
        writes[c] =
            IF (c - 1 < epoch) \/ (c - 1 = epoch /\ pc \in {"batch", "failed"})
            THEN 1 ELSE 0
    /\ pc = "done" =>
        /\ epoch = epochs
        /\ Len(result.errors) = runs[model]
        /\ \A r \in DOMAIN result.errors :
            /\ Len(result.errors[r]) = epoch
            /\ \A c \in 1..epoch : result.errors[r][c] # Uninitialised

C6_Witness ==
    /\ pc = "done"
    /\ epochs = 2
    /\ runs[model] > 1
    /\ writes = <<1, 1>>

\* C7 (as claimed): a call with epochs_without_progress = k trains and ends by
\* returning an error series with one column per epoch run.
C7_EarlyStopping ==
    (SgdCalled /\ ewp # NoKeyword) =>
        /\ pc # "failed"
        /\ pc = "done" => \A r \in DOMAIN result.errors :
                              Len(result.errors[r]) = epoch

\* C8: sgd returns the instance it was given, holding the parameters the last
\* update_parameters call of the last epoch left (the initial ones if no
\* update was made); nothing is restored before the return.
C8_ReturnsLastParameters ==
    pc = "done" =>
        /\ result.model = model
        /\ beta[result.model] = lastUpdate.after
        /\ epochs > 0 =>
            /\ lastUpdate.rows = mini_batches[Len(mini_batches)]
            /\ lastUpdate.after = UpdatesBefore(epochs)

C8_Witness ==
    /\ pc = "done"
    /\ epochs = 2
    /\ mini_batch_size = 2
    /\ beta[model] = 4

\* C14: from the call on, whatever epochs, mini-batches, predict and update
\* calls have run, x and y hold the rows they were passed with, in the same
\* order.
C14_DataNeverModified ==
    SgdCalled => (X = DesignMatrix(data_size) /\ Y = Targets(data_size))

C14_Witness ==
    /\ pc = "done"
    /\ epochs = 2
    /\ data_size = 3
    /\ indexes # Arange(data_size)
    /\ lastUpdate.x # <<>>
    /\ beta[model] >= 2

\* C21: within an epoch the mini-batches are taken one after another, and
\* the k-th update_parameters call of the epoch is handed the rows of the k-th
\* mini-batch and the y_tilde that predict computed on those rows from the
\* parameters left by the update before it (those the epoch started with for
\* k = 1), and leaves the next parameter state.
C21_PredictThenUpdate ==
    (pc = "batch" /\ batch > 0) =>
        /\ lastUpdate.rows = mini_batches[batch]
        /\ lastUpdate.x = Take(X, mini_batches[batch])
        /\ lastUpdate.y = Take(Y, mini_batches[batch])
        /\ lastUpdate.y_tilde.rows = mini_batches[batch]
        /\ lastUpdate.y_tilde.params = UpdatesBefore(epoch) + (batch - 1)
        /\ lastUpdate.before = lastUpdate.y_tilde.params
        /\ lastUpdate.after = lastUpdate.before + 1
        /\ beta[model] = lastUpdate.after

C21_Witness ==
    /\ pc = "batch"
    /\ epoch = 1
    /\ batch = 2
    /\ Len(mini_batches) = 2
    /\ mini_batches[1] # mini_batches[2]
    /\ lastUpdate.y_tilde = Predict(3, mini_batches[2])

SameParameters ==
    /\ Len(network') = Len(network)
    /\ \A i \in DOMAIN network :
        /\ network'[i].kind = network[i].kind
        /\ network'[i].height = network[i].height
        /\ network'[i].activation = network[i].activation
        /\ network'[i].weights = network[i].weights
        /\ network'[i].bias = network[i].bias
        /\ network'[i].born = network[i].born
        /\ network'[i].d = network[i].d
    /\ theta' = theta
    /\ isArray' = isArray
    /\ learning_rate' = learning_rate

\* C9 (as claimed): a predict call leaves the whole state of the network, the
\* buffers a, z and d of every layer included, as it was.
C9_PredictHasNoSideEffects ==
    [][call'.op = "predict" => (network' = network /\ SameParameters)]_vars

\* C9 (amended): a predict call changes no parameter of the network: the layer
\* sequence, every layer's weights, bias and d, theta and the learning rate
\* stay as they were; only the buffers a and z are overwritten.
C9_PredictKeepsParameters ==
    [][call'.op = "predict" => SameParameters]_vars

C9_Witness ==
    /\ call.op = "predict"
    /\ call.ok
    /\ Len(network) = 3
    /\ backprops = 1
    /\ network[3].a.ndim = 2
    /\ network[3].d # Zeros(network[3].height)
    /\ network[2].z # Zeros(network[2].height)

\* C10 (as claimed): on a network that holds at least one layer and on which
\* compile has never been called, feed_forward, predict and back_propagate fail.
C10_UncompiledCallsFail ==
    (/\ call.op \in {"feed_forward", "predict", "back_propagate"}
     /\ call.compilesBefore = 0
     /\ Len(network) >= 1) => ~call.ok

\* An input layer followed by one or more non-input layers: the networks
\* compile accepts, and on which a call can fail only for want of compile.
Layered(net) ==
    /\ Len(net) >= 2
    /\ net[1].kind = "Input"
    /\ \A i \in 2..Len(net) : net[i].kind # "Input"

\* C11 (as claimed): a feed_forward or back_propagate call that fails on a
\* network on which compile has never been called leaves the buffers a, z and
\* d of every layer as they were before the call.
C11_FailureLeavesBuffers ==
    [][(/\ call'.op \in {"feed_forward", "back_propagate"}
        /\ ~call'.ok
        /\ compiles = 0
        /\ Layered(network))
       => (/\ Len(network') = Len(network)
           /\ \A i \in DOMAIN network :
                /\ network'[i].a = network[i].a
                /\ network'[i].z = network[i].z
                /\ network'[i].d = network[i].d)]_vars

\* weights of layer i has shape (height of layer i-1) x (height of layer i),
\* bias is a vector of length (height of layer i).
ShapedFor(net, i) ==
    /\ net[i].weights.ndim = 2
    /\ NRows(net[i].weights) = net[i - 1].height
    /\ \A r \in 1..NRows(net[i].weights) :
          Len(net[i].weights.v[r]) = net[i].height
    /\ net[i].bias.ndim = 1
    /\ NCols(net[i].bias) = net[i].height

\* C12: once compile has returned normally, every layer after the first owns
\* a weights matrix of shape (height of the layer before) x (own height) and a
\* bias vector of its own height, and the first layer owns neither.
C12_CompiledShapes ==
    isArray =>
        /\ \A i \in 2..Len(network) : ShapedFor(network, i)
        /\ Len(network) >= 1 =>
              (~HasAttr(network[1].weights) /\ ~HasAttr(network[1].bias))

C12_Witness ==
    /\ call.op = "compile"
    /\ call.ok
    /\ Len(network) = 3
    /\ network[1].kind = "Input"
    /\ network[3].height # network[2].height

\* C13: a compile call on a network a compile call has already turned into
\* an array returns normally, keeps the layer sequence and the heights, and
\* gives every layer after the first new weights and bias arrays (arrays made
\* by this call) of the shapes they had.
C13_CompileResets ==
    [][(call'.op = "compile" /\ isArray)
       => (/\ call'.ok
           /\ Len(network') = Len(network)
           /\ \A i \in DOMAIN network :
                /\ network'[i].kind = network[i].kind
                /\ network'[i].height = network[i].height
           /\ \A i \in 2..Len(network) :
                /\ network'[i].born = compiles'
                /\ network'[i].born # network[i].born
                /\ ShapedFor(network', i)
                /\ ShapedFor(network, i))]_vars

\* The second compile of a three-layer network whose hidden layer holds a d
\* computed by back_propagate: the network was compiled and trained before.
C13_Witness ==
    /\ call.op = "compile"
    /\ call.ok
    /\ Len(network) = 3
    /\ Len(theta) = 4
    /\ network[2].d.ndim = 2

\* The sum of the integers of a sequence.
RECURSIVE Sum(_)
Sum(s) == IF s = <<>> THEN 0 ELSE Head(s) + Sum(Tail(s))

\* Entry (r, c) of a_prev . W + b
Affine(a_prev, W, b, r, c) ==
    Sum([k \in 1..NRows(W) |-> a_prev.v[r][k] * W.v[k][c]]) + b.v[1][c]

\* The activation functions on one entry.
ActivationAt(f, x) == IF f = "identity" \/ x > 0 THEN x ELSE 0

\* C24: after a feed_forward or predict call that returned normally on a
\* compiled network, the first layer's a is the input array and every later
\* layer i holds z_i = a_(i-1) . W_i + b_i, computed from the a that layer
\* i - 1 holds after the same call, and a_i = activation_i(z_i); predict
\* returned the last layer's a.
C24_ForwardPass ==
    (isArray /\ call.op \in {"feed_forward", "predict"} /\ call.ok) =>
        /\ network[1].a = call.arg
        /\ \A i \in 2..Len(network) :
            LET l == network[i]
            IN  /\ l.z.ndim = 2
                /\ l.a.ndim = 2
                /\ NRows(l.z) = NRows(call.arg)
                /\ NRows(l.a) = NRows(call.arg)
                /\ \A r \in 1..NRows(call.arg) :
                    /\ Len(l.z.v[r]) = l.height
                    /\ Len(l.a.v[r]) = l.height
                    /\ \A c \in 1..l.height :
                        /\ l.z.v[r][c] =
                              Affine(network[i - 1].a, l.weights, l.bias, r, c)
                        /\ l.a.v[r][c] = ActivationAt(l.activation, l.z.v[r][c])
        /\ call.op = "predict" => call.ret = network[Len(network)].a

\* A predict call on a compiled network of three layers, with a batch of two
\* rows and a non-zero output.
C24_Witness ==
    /\ isArray
    /\ call.op = "predict"
    /\ call.ok
    /\ Len(network) = 3
    /\ NRows(call.arg) = 2
    /\ network[2].a # network[2].z
    /\ call.ret.v[1][1] # 0

\* The derivative of the activation functions on one entry.
DiffActivationAt(f, x) == IF f = "identity" \/ x > 0 THEN 1 ELSE 0

\* Entry (r, c) of d_next . transpose(W_next)
BackError(d_next, W_next, r, c) ==
    Sum([k \in 1..NCols(d_next) |-> d_next.v[r][k] * W_next.v[c][k]])

\* C25: after a back_propagate call that returned normally on a compiled
\* network, the last layer holds d = cost_diff(a, target) * diff_activation(z)
\* and every other layer i after the first holds
\* d_i = (d_(i+1) . transpose(W_(i+1))) * diff_activation(z_i), with the d that
\* layer i + 1 holds after the same call: layer i + 1 was visited before
\* layer i, and only the last layer saw the target.
C25_BackwardPass ==
    (isArray /\ call.op = "back_propagate" /\ call.ok /\ Len(network) >= 2) =>
        LET last == network[Len(network)]
        IN  /\ last.d.ndim = 2
            /\ \A r \in 1..NRows(last.d) :
                /\ Len(last.d.v[r]) = last.height
                /\ \A c \in 1..last.height :
                      last.d.v[r][c] =
                        (2 * (Elem(call.arg, r, c) - Elem(last.a, r, c)))
                          * DiffActivationAt(last.activation, Elem(last.z, r, c))
            /\ \A i \in 2..(Len(network) - 1) :
                LET l == network[i]
                    next == network[i + 1]
                IN  /\ l.d.ndim = 2
                    /\ NRows(l.d) = NRows(next.d)
                    /\ \A r \in 1..NRows(l.d) :
                        /\ Len(l.d.v[r]) = l.height
                        /\ \A c \in 1..l.height :
                              l.d.v[r][c] =
                                BackError(next.d, next.weights, r, c)
                                  * DiffActivationAt(l.activation, Elem(l.z, r, c))

\* A backward pass over two non-input layers after a forward pass: the
\* hidden ReLU layer holds an error with a zero and a non-zero entry.
C25_Witness ==
    /\ isArray
    /\ call.op = "back_propagate"
    /\ call.ok
    /\ Len(network) = 3
    /\ network[2].z.ndim = 2
    /\ \E r \in 1..NRows(network[2].d) :
          \E c1, c2 \in 1..network[2].height :
            network[2].d.v[r][c1] = 0 /\ network[2].d.v[r][c2] # 0

\* Entry (p, c) of transpose(a_prev) . d
WeightGradient(a_prev, d, p, c) ==
    Sum([r \in 1..NRows(a_prev) |-> a_prev.v[r][p] * d.v[r][c]])

\* C26: a back_propagate call that returns normally on a compiled network
\* adds learning_rate * mean(d_i over the batch rows) to the bias and
\* learning_rate * (transpose(a_(i-1)) . d_i) to the weights of every layer i
\* after the first, d_i being the error the call computed for the layer; the
\* first layer and the a and z of every layer stay as they were.
C26_AdditiveUpdate ==
    [][(isArray /\ call'.op = "back_propagate" /\ call'.ok) =>
        /\ Len(network') = Len(network)
        /\ Len(network) >= 1 => network'[1] = network[1]
        /\ \A i \in DOMAIN network :
            /\ network'[i].a = network[i].a
            /\ network'[i].z = network[i].z
        /\ \A i \in 2..Len(network) :
            LET d == network'[i].d
            IN  /\ \A c \in 1..network[i].height :
                      network'[i].bias.v[1][c] * NRows(d) =
                        (network[i].bias.v[1][c] * NRows(d))
                          + (learning_rate * Sum([r \in 1..NRows(d) |-> d.v[r][c]]))
                /\ \A p \in 1..network[i - 1].height :
                    \A c \in 1..network[i].height :
                      network'[i].weights.v[p][c] =
                        network[i].weights.v[p][c]
                          + (learning_rate
                               * WeightGradient(network[i - 1].a, d, p, c))
      ]_vars

\* A backward pass with a batch of two rows over two non-input layers that
\* changed the weights of both.
C26_Witness ==
    /\ isArray
    /\ call.op = "back_propagate"
    /\ call.ok
    /\ Len(network) = 3
    /\ NRows(call.arg) = 2
    /\ network[2].a.ndim = 2
    /\ network[2].weights # Normal(compiles + 2, 2, network[2].height, 2)
    /\ network[3].weights # Normal(compiles + 3, network[2].height, 1, 2)

\* C27 (as claimed): in a back_propagate call that returns normally on a
\* compiled network with two or more layers after the first, the error d of
\* every layer i before the last is computed from the weights layer i + 1
\* had when the call began, before the call updated them.
C27_ErrorFromOldWeights ==
    [][(isArray /\ call'.op = "back_propagate" /\ call'.ok) =>
        \A i \in 2..(Len(network) - 1) :
            \A r \in 1..NRows(network'[i].d) :
                \A c \in 1..network[i].height :
                    network'[i].d.v[r][c] =
                        BackError(network'[i + 1].d, network[i + 1].weights, r, c)
                          * DiffActivationAt(network[i].activation,
                                             Elem(network[i].z, r, c))
      ]_vars

\* What Network.backprop returns for each sample of a mini-batch when it is
\* run on the parameters of net.
GradientsOf(net, mini_batch_x) ==
    Tuple([k \in 1..Len(mini_batch_x) |->
              Backprop(net, mini_batch_x[k][1], mini_batch_x[k][2])])

\* Backprop lists the layers last first: where it puts layer i of n layers.
PositionOf(i, n) == (n - i) + 1

\* C28: an update_parameters call that returns normally adds to the weights
\* and to the bias of every layer i after the first learning_rate times the
\* sum, over the samples of the mini-batch, of the gradient backprop computes
\* for that layer i from the parameters the network had when the call began.
C28_BatchGradient ==
    [][(call'.op = "update_parameters" /\ call'.ok) =>
        \A g \in {GradientsOf(network, call'.arg)} : \A n \in {Len(network)} :
            /\ Len(network') = n
            /\ \A k \in 1..Len(g) : g[k].ok
            /\ \A i \in 2..n :
                /\ \A c \in 1..network[i].height :
                      network'[i].bias.v[1][c] =
                        network[i].bias.v[1][c]
                          + (learning_rate
                               * Sum([k \in 1..Len(g) |->
                                   g[k].nabla_b[PositionOf(i, n)].v[1][c]]))
                /\ \A p \in 1..network[i - 1].height :
                    \A c \in 1..network[i].height :
                      network'[i].weights.v[p][c] =
                        network[i].weights.v[p][c]
                          + (learning_rate
                               * Sum([k \in 1..Len(g) |->
                                   g[k].nabla_w[PositionOf(i, n)].v[p][c]]))
      ]_vars

\* An update with two different samples on a network of three layers that
\* changed the weights of both layers after the first.
C28_Witness ==
    /\ call.op = "update_parameters"
    /\ call.ok
    /\ Len(network) = 3
    /\ Len(call.arg) = 2
    /\ call.arg[1] # call.arg[2]
    /\ network[2].weights # Normal(compiles + 2, 2, network[2].height, 2)
    /\ network[3].weights # Normal(compiles + 3, network[2].height, 1, 2)

\* C29 (as claimed): once compile has returned normally, whatever the number
\* of compile calls made, theta holds exactly one (weights, bias) entry per
\* layer after the first, in layer order, and each entry is the pair of
\* arrays that layer owns now.
C29_ThetaPerLayer ==
    isArray =>
        /\ Len(theta) = (IF Len(network) = 0 THEN 0 ELSE Len(network) - 1)
        /\ \A k \in DOMAIN theta :
            /\ theta[k].layer = k + 1
            /\ theta[k].born = network[k + 1].born

\* The layers of the network, without their arrays.
LayerSequence(net) ==
    [i \in DOMAIN net |-> <<net[i].kind, net[i].height, net[i].activation>>]

\* C30: the layer sequence grows only before compile: an addLayer call on a
\* network that compile has not turned into an array returns normally and
\* appends its layer at the end; on a compiled network it fails and leaves
\* the layers, their parameters and theta as they were; no other call
\* changes the layer sequence.
C30_GrowsOnlyBeforeCompile ==
    [][/\ (call'.op = "addLayer" /\ ~isArray) =>
            /\ call'.ok
            /\ Len(network') = Len(network) + 1
            /\ SubSeq(network', 1, Len(network)) = network
            /\ network'[Len(network')] \in NewLayers
            /\ theta' = theta
       /\ (call'.op = "addLayer" /\ isArray) =>
            /\ ~call'.ok
            /\ network' = network
            /\ theta' = theta
            /\ isArray'
       /\ call'.op # "addLayer" =>
            LayerSequence(network') = LayerSequence(network)
      ]_vars

\* A failed addLayer on a compiled and trained network.
C30_Witness ==
    /\ call.op = "addLayer"
    /\ ~call.ok
    /\ isArray
    /\ Len(network) = 2
    /\ backprops = 1

\* ------------------------------------------------------------------ claims on the schedule
\* The compiled function has been called; lr_step and lr_rate are that call.
RateCalled == schedule.state = "compiled" /\ lr_step >= 0

\* C15 (as claimed): without warm-up the rate at step 0 is base and the rate
\* at every step is strictly above the rate at the next step.
C15_StrictlyDecreasing ==
    (RateCalled /\ schedule.warmup = 0) =>
        /\ lr_step = 0 => lr_rate = schedule.base
        /\ FracLess(Rate(schedule, lr_step + 1), lr_rate)

\* C15 (amended): without warm-up the rate at step 0 is base and the rate
\* never increases from a step to the next; it strictly decreases when
\* decay > 0 and is constant (base) when decay = 0.
C15_NonIncreasing ==
    (RateCalled /\ schedule.warmup = 0) =>
        /\ lr_step = 0 => lr_rate = schedule.base
        /\ ~FracLess(lr_rate, Rate(schedule, lr_step + 1))
        /\ schedule.decay[1] > 0 =>
              FracLess(Rate(schedule, lr_step + 1), lr_rate)
        /\ schedule.decay[1] = 0 => lr_rate = schedule.base

C15_Witness ==
    /\ RateCalled
    /\ schedule.warmup = 0
    /\ schedule.decay[1] > 0
    /\ lr_step = 2
    /\ FracLess(lr_rate, schedule.base)

\* C16 (as claimed): every call of a compiled schedule at a step within the
\* total step count returns a strictly positive rate.
C16_RatePositive == RateCalled => lr_rate[1] > 0

\* C16 (amended): the rate is never negative, and it is strictly positive at
\* every step except step 0 of a schedule with a warm-up of one step or
\* more, where it is 0.
C16_RatePositiveAfterStart ==
    RateCalled =>
        /\ lr_rate[1] >= 0
        /\ lr_rate[2] > 0
        /\ (lr_rate[1] = 0) <=> (lr_step = 0 /\ schedule.warmup > 0)

C16_Witness ==
    /\ RateCalled
    /\ schedule.warmup = 2
    /\ lr_step = 1
    /\ lr_rate[1] > 0

\* C17: with a warm-up of n > 0 steps the rate at step 0 is 0 and the rate at
\* step n is base.
C17_WarmupBoundary ==
    (RateCalled /\ schedule.warmup > 0) =>
        /\ lr_step = 0 => lr_rate = <<0, 1>>
        /\ lr_step = schedule.warmup => lr_rate = schedule.base

C17_Witness ==
    /\ RateCalled
    /\ schedule.warmup = 2
    /\ schedule.decay[1] > 0
    /\ lr_step = 2
    /\ lr_rate = schedule.base

\* ------------------------------------------------------------------ claims on the linear models
\* C18: with momentum = 0 every update_parameters call of a linear model,
\* whatever updates came before it, subtracts exactly rate(step) * gradient
\* from the parameters.
C18_ZeroMomentumIsPlainDescent ==
    (lin_last.step >= 0 /\ lin.momentum = Frac(0, 1)) =>
        \A u \in {lin_last.ols, lin_last.ridge} :
            u.after = FracSub(u.before,
                              FracMul(Rate(LinSchedule, lin_last.step),
                                      u.gradient))

\* A second update in a row, after a first one that left a velocity.
C18_Witness ==
    /\ lin.momentum = Frac(0, 1)
    /\ lin_last.step = 1
    /\ lin_last.ols.gradient # Frac(0, 1)
    /\ lin_last.ols.after # lin_last.ols.before
    /\ lin.ols.velocity # Frac(0, 1)

\* C19: a Ridge model with lambda = 0 and an OLS model constructed with the
\* same initial parameters and fed the same mini-batches hold the same
\* parameters after every update.
C19_RidgeZeroLambdaIsOLS ==
    lin.lambda = Frac(0, 1) => lin.ridge.beta = lin.ols.beta

C19_Witness ==
    /\ lin.lambda = Frac(0, 1)
    /\ lin.momentum # Frac(0, 1)
    /\ lin_step = 2
    /\ lin_last.ridge.gradient # Frac(0, 1)
    /\ lin_last.ridge.after # lin_last.ridge.before

CommonKey(k) ==
    /\ Len(dicts) > 0
    /\ \A i \in DOMAIN dicts : k \in DOMAIN fd.passed[dicts[i]]
    /\ \A i, j \in DOMAIN dicts :
          fd.passed[dicts[i]][k] = fd.passed[dicts[j]][k]

\* C20 (as claimed): a filter_dicts call returns; common holds exactly the
\* pairs of the dictionaries passed whose key is in every one of them with
\* the same value, and every dictionary of the list has lost exactly those
\* keys, so that it and common together are the dictionary as passed.
C20_FilterDictsSplit ==
    fd.state # "start" =>
        /\ fd.state = "returned"
        /\ DOMAIN fd.common = {k \in Keys : CommonKey(k)}
        /\ \A k \in DOMAIN fd.common : fd.common[k] = fd.passed[dicts[1]][k]
        /\ \A i \in DOMAIN dicts :
              /\ DOMAIN heap[dicts[i]] =
                    (DOMAIN fd.passed[dicts[i]]) \ DOMAIN fd.common
              /\ \A k \in DOMAIN heap[dicts[i]] :
                    heap[dicts[i]][k] = fd.passed[dicts[i]][k]

====
